---------------------------- MODULE Spec2Model ----------------------------
(***************************************************************************)
(* Model of the tagline generator's two route handlers:                    *)
(*   - the deterministic generator (unnamed/part_000: templates, seeded    *)
(*     pseudo-random picks, de-duplication, word and character clamps);    *)
(*   - the external adapter (unnamed/part_001: provider call with one      *)
(*     model fallback, output parsing, sanitization, error mapping).       *)
(* JavaScript strings are TLA+ strings; TLC evaluates Len, \o, SubSeq on   *)
(* them, so every string function below works character by character.     *)
(***************************************************************************)
EXTENDS Integers, Sequences, FiniteSets, TLC

VARIABLES
    pc,        \* position of the handler that is running ("idle" between requests)
    route,     \* which POST handler serves the request: "generate" | "adapter"
    env,       \* process.env: [apiKey |-> BOOLEAN]
    body,      \* the request body as request.json() will see it
    loc,       \* the handler's locals: description, tone, audience
    t,         \* createRng's closure variable (a 32-bit word, see U32)
    results,   \* buildTaglines' Set<string>, in insertion order
    attempts,  \* buildTaglines' attempt counter
    calls,     \* outbound provider calls issued for this request, in order
    outcome,   \* what the last provider call ended in
    response,  \* what the handler returned (or how it ended)
    served,    \* completed requests of the deterministic route, oldest first
    fn         \* a direct application of one pure helper: its arguments and result

vars == <<pc, route, env, body, loc, t, results, attempts, calls, outcome,
          response, served, fn>>

---------------------------------------------------------------------------
(* Bounds of the model.                                                    *)

MaxClampLen == 7
MaxDescLen == 104
NumRequests == 2
MaxListLen == 6
MaxMetaLen == 164
MaxClampMax == 8
MaxVariedAttempts == 2

---------------------------------------------------------------------------
(* JavaScript string primitives.                                           *)

Char(s, i) == SubSeq(s, i, i)

\* The ASCII members of the regular expression class \s (and of trim()).
WhiteSpace == {" ", "\t", "\n", "\r", "\f"}
Quotes == {"\"", "'"}
Digits == {"0", "1", "2", "3", "4", "5", "6", "7", "8", "9"}
MarkerPunct == {".", ")", "-", ":"}

Min(a, b) == IF a < b THEN a ELSE b
Max(a, b) == IF a > b THEN a ELSE b

\* First index >= i of s whose character is not in set (Len(s)+1 if none).
RECURSIVE SkipRun(_, _, _)
SkipRun(s, i, set) ==
    IF i <= Len(s) /\ Char(s, i) \in set THEN SkipRun(s, i + 1, set) ELSE i

\* Last index <= i of s whose character is not in set (0 if none).
RECURSIVE SkipRunBack(_, _, _)
SkipRunBack(s, i, set) ==
    IF i >= 1 /\ Char(s, i) \in set THEN SkipRunBack(s, i - 1, set) ELSE i

\* s.replace(/^[set]+/, "")
StripLeading(s, set) == SubSeq(s, SkipRun(s, 1, set), Len(s))

\* s.replace(/[set]+$/, "")
StripTrailing(s, set) == SubSeq(s, 1, SkipRunBack(s, Len(s), set))

trimEnd(s) == StripTrailing(s, WhiteSpace)
trim(s) == StripLeading(StripTrailing(s, WhiteSpace), WhiteSpace)

\* s.slice(start, end) with JavaScript's treatment of negative and
\* out-of-range indices (0-based, end exclusive).
slice(s, start, end) ==
    LET n == Len(s)
        from == IF start < 0 THEN Max(n + start, 0) ELSE Min(start, n)
        to == IF end < 0 THEN Max(n + end, 0) ELSE Min(end, n)
    IN  IF from >= to THEN "" ELSE SubSeq(s, from + 1, to)

\* The concatenation piece[lo] \o ... \o piece[hi], by halving, so that the
\* evaluation stays shallow on long strings.
RECURSIVE concat(_, _, _)
concat(piece, lo, hi) ==
    IF lo > hi THEN ""
    ELSE IF lo = hi THEN piece[lo]
         ELSE LET mid == (lo + hi) \div 2
              IN  concat(piece, lo, mid) \o concat(piece, mid + 1, hi)

\* s.replace(/\s+/g, " "): every maximal run of whitespace becomes one space
\* (the first character of a run is replaced, the others are dropped).
collapseWhitespace(s) ==
    LET piece == [i \in 1..Len(s) |->
                    IF Char(s, i) \notin WhiteSpace THEN Char(s, i)
                    ELSE IF i > 1 /\ Char(s, i - 1) \in WhiteSpace THEN ""
                         ELSE " "]
    IN  concat(piece, 1, Len(s))

\* s.split(" "): the pieces between single spaces ("" splits into <<"">>).
split(s) ==
    LET spaces == {i \in 1..Len(s) : Char(s, i) = " "}
        nth(k) == CHOOSE i \in spaces : Cardinality({j \in spaces : j < i}) = k - 1
        count == Cardinality(spaces) + 1
    IN  [k \in 1..count |->
            SubSeq(s, IF k = 1 THEN 1 ELSE nth(k - 1) + 1,
                      IF k = count THEN Len(s) ELSE nth(k) - 1)]

\* words.join(" ")
RECURSIVE join(_)
join(words) ==
    IF Len(words) = 0 THEN ""
    ELSE IF Len(words) = 1 THEN words[1]
         ELSE words[1] \o " " \o join(Tail(words))

\* words.slice(0, n) on an array
take(words, n) == SubSeq(words, 1, Min(n, Len(words)))

---------------------------------------------------------------------------
(* 32-bit integer arithmetic.  A JavaScript int32/uint32 is kept as the    *)
(* pair <<high 16 bits, low 16 bits>> of its two's-complement bit pattern, *)
(* because TLC's own integers overflow at 2^31.                            *)

W16 == 256 * 256

U32(n) == <<(n \div W16) % W16, n % W16>>

\* Bitwise operations on naturals below 2^16, bit by bit.
RECURSIVE Xor16(_, _)
Xor16(a, b) ==
    IF a = 0 THEN b
    ELSE IF b = 0 THEN a
         ELSE ((a + b) % 2) + 2 * Xor16(a \div 2, b \div 2)

RECURSIVE Or16(_, _)
Or16(a, b) ==
    IF a = 0 THEN b
    ELSE IF b = 0 THEN a
         ELSE Max(a % 2, b % 2) + 2 * Or16(a \div 2, b \div 2)

RECURSIVE Pow2(_)
Pow2(k) == IF k = 0 THEN 1 ELSE 2 * Pow2(k - 1)

\* a ^ b
Xor32(a, b) == <<Xor16(a[1], b[1]), Xor16(a[2], b[2])>>

\* a | k for a small constant k (k < 2^16)
OrLow(a, k) == <<a[1], Or16(a[2], k)>>

\* a >>> k for 0 < k < 16
Shr32(a, k) ==
    <<a[1] \div Pow2(k), (a[2] \div Pow2(k)) + (a[1] % Pow2(k)) * Pow2(16 - k)>>

\* (a + b) mod 2^32
Add32(a, b) ==
    LET lo == a[2] + b[2]
    IN  <<(a[1] + b[1] + lo \div W16) % W16, lo % W16>>

\* (a * b) mod 2^16 for a, b < 2^16, without leaving 31 bits
MulLow16(a, b) == ((a % 256) * b + (((a \div 256) * b) % 256) * 256) % W16

\* Math.imul(a, b): the low 32 bits of the product
imul(a, b) ==
    LET p0 == (a[2] % 256) * b[2]
        p1 == (a[2] \div 256) * b[2]
        lo == (p0 % W16) + (p1 % 256) * 256
        hi == (p0 \div W16) + (p1 \div 256) + (lo \div W16)
              + MulLow16(a[1], b[2]) + MulLow16(a[2], b[1])
    IN  <<hi % W16, lo % W16>>

\* 0x6d2b79f5 (part_000:57)
RngIncrement == <<27947, 31221>>

\* A variant of createRng whose t is shared by all requests: it is seeded
\* once and then keeps the state the previous request left.
createRng_shared(seed) == IF t = <<0, 0>> THEN U32(seed) ELSE t

\* createRng (part_000:54-55): `let t = seed`.  t is a double in the code and
\* is only ever read through int32 operators, so its value mod 2^32 is kept.
createRng(seed) == U32(seed)

\* The closure's `t += 0x6d2b79f5` (part_000:57)
rngAdvance(state) == Add32(state, RngIncrement)

\* The closure's result for the advanced state (part_000:58-61), as the
\* uint32 numerator of the returned fraction x / 4294967296.
rngOutput(state) ==
    LET x1 == imul(Xor32(state, Shr32(state, 15)), OrLow(state, 1))
        x2 == Xor32(x1, Add32(x1, imul(Xor32(x1, Shr32(x1, 7)), OrLow(x1, 61))))
    IN  Xor32(x2, Shr32(x2, 14))

\* pick's index (part_000:65-66): Math.floor(rng() * items.length), for a
\* uint32 numerator u: floor(u * n / 2^32), exact for the small n used.
pickIndex(u, n) == (u[1] * n + (u[2] * n) \div W16) \div W16

---------------------------------------------------------------------------
(* Helpers shared by both routes.                                          *)

\* A variant of clamp that forgets trimEnd().
clamp_noTrimEnd(value, max) ==
    IF Len(value) <= max THEN value ELSE slice(value, 0, max - 3) \o "..."

\* clamp (part_000:40-41, part_001:29-30)
clamp(value, max) ==
    IF Len(value) <= max THEN value
    ELSE trimEnd(slice(value, 0, max - 3)) \o "..."

\* clampWords (part_000:43-49)
clampWords(value, maxWords) ==
    LET words == split(trim(collapseWhitespace(value)))
    IN  IF Len(words) <= maxWords THEN value ELSE join(take(words, maxWords))

\* value.replace(/^[\d]+\s*[\.\)\-:]+/, ""): digits, optional whitespace,
\* then at least one of . ) - : at the very start.
stripListMarker(s) ==
    LET afterDigits == SkipRun(s, 1, Digits)
        afterSpace == SkipRun(s, afterDigits, WhiteSpace)
        afterPunct == SkipRun(s, afterSpace, MarkerPunct)
    IN  IF afterDigits > 1 /\ afterPunct > afterSpace
        THEN SubSeq(s, afterPunct, Len(s))
        ELSE s

\* sanitizeTagline (part_001:32-41)
sanitizeTagline(value) ==
    LET cleaned ==
            trim(collapseWhitespace(
                StripTrailing(
                    stripListMarker(StripLeading(value, WhiteSpace \cup Quotes)),
                    WhiteSpace \cup Quotes)))
        words == split(cleaned)
    IN  IF Len(words) > 10 THEN join(take(words, 10)) ELSE cleaned

---------------------------------------------------------------------------
(* The deterministic generator (unnamed/part_000).                         *)

tones == <<"Professional", "Playful", "Premium", "Bold">>
audiences == <<"General", "Motorsport fans", "Finance/banking", "Developers">>

Range(f) == {f[i] : i \in DOMAIN f}

toneModifiers ==
    [Professional |-> <<"precise", "focused", "clear", "trusted">>,
     Playful |-> <<"bright", "fun", "lively", "sparked">>,
     Premium |-> <<"refined", "elevated", "polished", "lux">>,
     Bold |-> <<"fearless", "powerful", "unmistakable", "fast">>]

toneVerbs ==
    [Professional |-> <<"deliver", "align", "streamline", "build">>,
     Playful |-> <<"ignite", "spark", "flip", "charge">>,
     Premium |-> <<"elevate", "polish", "distill", "curate">>,
     Bold |-> <<"unleash", "charge", "push", "own">>]

audienceNouns ==
    ("General" :> <<"brands", "teams", "products", "stories">>)
    @@ ("Motorsport fans" :> <<"race days", "pit crews", "track moments", "fans">>)
    @@ ("Finance/banking" :> <<"portfolios", "finance teams", "banks", "trust">>)
    @@ ("Developers" :> <<"builds", "developers", "products", "roadmaps">>)

audienceShort ==
    ("General" :> "general audiences")
    @@ ("Motorsport fans" :> "motorsport fans")
    @@ ("Finance/banking" :> "finance teams")
    @@ ("Developers" :> "developers")

\* String.prototype.charCodeAt for the characters the model's inputs use:
\* printable ASCII (codes 32..95 and 97..126; a TLA+ string cannot hold the
\* grave accent, code 96) and the whitespace control characters.
AsciiLow == " !\"#$%&'()*+,-./0123456789:;<=>?@ABCDEFGHIJKLMNOPQRSTUVWXYZ[\\]^_"
AsciiHigh == "abcdefghijklmnopqrstuvwxyz{|}~"

charCodes ==
    [c \in {Char(AsciiLow, i) : i \in 1..Len(AsciiLow)} |->
        31 + CHOOSE i \in 1..Len(AsciiLow) : Char(AsciiLow, i) = c]
    @@ [c \in {Char(AsciiHigh, i) : i \in 1..Len(AsciiHigh)} |->
        96 + CHOOSE i \in 1..Len(AsciiHigh) : Char(AsciiHigh, i) = c]
    @@ ("\t" :> 9) @@ ("\n" :> 10) @@ ("\f" :> 12) @@ ("\r" :> 13)

\* The sum of the character codes of value[lo..hi], by halving.
RECURSIVE sumCharCodes(_, _, _)
sumCharCodes(value, lo, hi) ==
    IF lo > hi THEN 0
    ELSE IF lo = hi THEN charCodes[Char(value, lo)]
         ELSE LET mid == (lo + hi) \div 2
              IN  sumCharCodes(value, lo, mid) + sumCharCodes(value, mid + 1, hi)

\* hashSeed (part_000:51-52)
hashSeed(value) ==
    LET sum == sumCharCodes(value, 1, Len(value)) IN IF sum = 0 THEN 1 ELSE sum

\* The templates array (part_000:74-83).  Each template draws twice, in the
\* order its placeholders are evaluated; `first` and `second` are the draws.
templateCount == 8

\* A template list whose third template repeats the shape of the first.
template_sameShape(k, tone, audience, first, second) ==
    LET m(u) == toneModifiers[tone][pickIndex(u, Len(toneModifiers[tone])) + 1]
        v(u) == toneVerbs[tone][pickIndex(u, Len(toneVerbs[tone])) + 1]
        n(u) == audienceNouns[audience][pickIndex(u, Len(audienceNouns[audience])) + 1]
    IN  CASE k = 0 -> m(first) \o " " \o n(second)
          [] k = 1 -> v(first) \o " " \o n(second) \o " faster"
          [] k = 2 -> m(first) \o " " \o n(second)
          [] k = 3 -> "Built to " \o v(first) \o " " \o n(second)
          [] k = 4 -> n(first) \o " with " \o (m(second) \o " edge")
          [] k = 5 -> v(first) \o " what " \o n(second) \o " demand"
          [] k = 6 -> "A " \o m(first) \o " pulse for " \o n(second)
          [] k = 7 -> m(first) \o " momentum for " \o n(second)

template(k, tone, audience, first, second) ==
    LET m(u) == toneModifiers[tone][pickIndex(u, Len(toneModifiers[tone])) + 1]
        v(u) == toneVerbs[tone][pickIndex(u, Len(toneVerbs[tone])) + 1]
        n(u) == audienceNouns[audience][pickIndex(u, Len(audienceNouns[audience])) + 1]
    IN  CASE k = 0 -> m(first) \o " " \o n(second)
          [] k = 1 -> v(first) \o " " \o n(second) \o " faster"
          [] k = 2 -> m(first) \o " wins for " \o n(second)
          [] k = 3 -> "Built to " \o v(first) \o " " \o n(second)
          [] k = 4 -> n(first) \o " with " \o (m(second) \o " edge")
          [] k = 5 -> v(first) \o " what " \o n(second) \o " demand"
          [] k = 6 -> "A " \o m(first) \o " pulse for " \o n(second)
          [] k = 7 -> m(first) \o " momentum for " \o n(second)

\* Set.prototype.add on an insertion-ordered set
setAdd(set, value) ==
    IF \E i \in DOMAIN set : set[i] = value THEN set ELSE Append(set, value)

\* A loop that runs until six taglines are collected.
loopCondition_offByOne(size, n) == size <= 5 /\ n < 30

\* The while condition of buildTaglines (part_000:88)
loopCondition(size, n) == size < 5 /\ n < 30

\* One iteration of the loop (part_000:89-91): the tagline added for draws
\* `first` and `second`.
candidate(n, tone, audience, first, second) ==
    clampWords(
        trim(collapseWhitespace(
            template(n % templateCount, tone, audience, first, second))),
        10)

\* The value buildTaglines returns (part_000:95)
taglinesOf(set) == take(set, 5)

\* buildMeta (part_000:98-103)
buildMeta(description, tone, audience) ==
    LET normal == trim(collapseWhitespace(description))
        trimmed == IF Len(normal) > 0 /\ Char(normal, Len(normal)) = "."
                   THEN SubSeq(normal, 1, Len(normal) - 1)
                   ELSE normal
        summary == clamp(trimmed, 100)
        meta == summary \o ". " \o tone \o " taglines for "
                \o audienceShort[audience] \o "."
    IN  clamp(meta, 160)

---------------------------------------------------------------------------
(* JSON values as the handlers see them.  A value is [t, s]: its type and, *)
(* for a string, the string; for a number, its decimal rendering.          *)

JUndefined == [t |-> "undefined", s |-> ""]
JNull == [t |-> "null", s |-> ""]
JString(str) == [t |-> "string", s |-> str]
JNumber(rendering) == [t |-> "number", s |-> rendering]
\* {} : an object without a toString of its own
JObject == [t |-> "object", s |-> ""]
\* {"toString": 1} : an object whose own toString is not callable
JBadToString == [t |-> "badToString", s |-> ""]

\* Whether `value?.toString()` throws a TypeError
toStringThrows(value) == value.t = "badToString"

\* value?.toString() ?? "" (part_000:122, part_001:117)
toStringOrEmpty(value) ==
    CASE value.t \in {"undefined", "null"} -> ""
      [] value.t \in {"string", "number"} -> value.s
      [] OTHER -> "[object Object]"

\* parseTone (part_000:105-106, part_001:14-15)
parseTone(value) ==
    IF value.t = "string" /\ value.s \in Range(tones) THEN value.s
    ELSE "Professional"

\* parseAudience (part_000:108-109, part_001:17-18)
parseAudience(value) ==
    IF value.t = "string" /\ value.s \in Range(audiences) THEN value.s
    ELSE "General"

\* A request body: unparsable text, the JSON text null, another JSON value
\* that is not an object with these keys (a number, a string, an array: every
\* property read gives undefined), or an object.
Body(kind, description, tone, audience) ==
    [kind |-> kind, description |-> description, tone |-> tone,
     audience |-> audience]

UnparsableBody == Body("unparsable", JUndefined, JUndefined, JUndefined)
NullBody == Body("null", JUndefined, JUndefined, JUndefined)
ScalarBody == Body("scalar", JUndefined, JUndefined, JUndefined)

\* The responses a handler can end in.
NoResponse ==
    [kind |-> "none", status |-> 0, error |-> "", taglines |-> <<>>,
     metaDescription |-> ""]
ErrorResponse(status, message) ==
    [kind |-> "json", status |-> status, error |-> message, taglines |-> <<>>,
     metaDescription |-> ""]
SuccessResponse(taglines, metaDescription) ==
    [kind |-> "json", status |-> 200, error |-> "", taglines |-> taglines,
     metaDescription |-> metaDescription]
\* The handler did not return: an exception left it.
Uncaught ==
    [kind |-> "uncaught", status |-> 0, error |-> "TypeError", taglines |-> <<>>,
     metaDescription |-> ""]

NoOutcome == [kind |-> "none", text |-> <<>>, code |-> "", status |-> 0]

minDescriptionLength == 20

\* A variant of the validation test that forgets trim().
tooShort_untrimmed(description) == Len(description) < minDescriptionLength

\* The validation test (part_000:123, part_001:118)
tooShort(description) == Len(trim(description)) < minDescriptionLength

---------------------------------------------------------------------------
(* The external adapter (unnamed/part_001).                                *)

primaryModel == "gpt-5-mini"
fallbackModel == "gpt-4o-mini"

\* The object a model output describes: its taglines member ([t, items]: the
\* member's type and, for an array, its entries) and its metaDescription
\* member (a JSON value).
Payload(taglines, metaDescription) ==
    [taglines |-> taglines, metaDescription |-> metaDescription]
NoTaglines == [t |-> "undefined", items |-> <<>>]
TaglineArray(items) == [t |-> "array", items |-> items]
NoPayload == Payload(NoTaglines, JUndefined)

\* An output text is a sequence of tokens: single characters (braces,
\* whitespace, other text), the member list of an object (what stands between
\* its braces), or a JSON literal that is not an object (null, 5, "x", [1]).
Tok(c) == [c |-> c, p |-> NoPayload]
Members(payload) == [c |-> "members", p |-> payload]
Literal == [c |-> "literal", p |-> NoPayload]

isSpaceToken(token) == token.c \in WhiteSpace

\* output_text.trim() on tokens
RECURSIVE trimTokens(_)
trimTokens(text) ==
    IF Len(text) > 0 /\ isSpaceToken(text[1]) THEN trimTokens(Tail(text))
    ELSE IF Len(text) > 0 /\ isSpaceToken(text[Len(text)])
         THEN trimTokens(SubSeq(text, 1, Len(text) - 1))
         ELSE text

\* JSON.parse: [ok, value].  An object text is "{" members "}" or "{" "}";
\* every property of a parsed literal reads as undefined, like those of {}.
jsonParse(text) ==
    LET inner == trimTokens(text)
    IN  IF Len(inner) = 3 /\ inner[1] = Tok("{") /\ inner[2].c = "members"
           /\ inner[3] = Tok("}")
        THEN [ok |-> TRUE, value |-> inner[2].p]
        ELSE IF inner = <<Tok("{"), Tok("}")>> \/ inner = <<Literal>>
             THEN [ok |-> TRUE, value |-> NoPayload]
             ELSE [ok |-> FALSE, value |-> NoPayload]

\* extractJson (part_001:43-50): [found, text]
extractJson(value) ==
    LET opens == {i \in DOMAIN value : value[i] = Tok("{")}
        closes == {i \in DOMAIN value : value[i] = Tok("}")}
        start == CHOOSE i \in opens : \A j \in opens : i <= j
        end == CHOOSE i \in closes : \A j \in closes : i >= j
    IN  IF opens = {} \/ closes = {} THEN [found |-> FALSE, text |-> <<>>]
        ELSE IF end <= start THEN [found |-> FALSE, text |-> <<>>]
             ELSE [found |-> TRUE, text |-> SubSeq(value, start, end)]

\* The two parse attempts (part_001:144-156): the payload, or NoPayload when
\* output stays null.
parseOutput(raw) ==
    LET direct == jsonParse(raw)
        extracted == extractJson(raw)
        second == jsonParse(extracted.text)
    IN  IF direct.ok THEN direct.value
        ELSE IF extracted.found /\ second.ok THEN second.value
             ELSE NoPayload

\* items.filter(Boolean) on strings: the non-empty ones, in order
RECURSIVE filterNonEmpty(_)
filterNonEmpty(items) ==
    IF Len(items) = 0 THEN <<>>
    ELSE IF items[1] = "" THEN filterNonEmpty(Tail(items))
         ELSE <<items[1]>> \o filterNonEmpty(Tail(items))

\* Whether output.taglines.map(sanitizeTagline) throws: an entry that is not
\* a string has no replace method.
sanitizeThrows(payload) ==
    /\ payload.taglines.t = "array"
    /\ \E i \in DOMAIN payload.taglines.items : payload.taglines.items[i].t # "string"

\* .slice(0, 5) (part_001:159)
capTaglines(items) == take(items, 5)

\* A variant of the tagline clean-up that skips sanitizeTagline.
cleanTagline_raw(value) == value

\* The function mapped over the taglines (part_001:159)
cleanTagline(value) == sanitizeTagline(value)

\* taglines (part_001:158-160)
outputTaglines(payload) ==
    IF payload.taglines.t = "array"
    THEN capTaglines(filterNonEmpty(
            [i \in DOMAIN payload.taglines.items |->
                cleanTagline(payload.taglines.items[i].s)]))
    ELSE <<>>

\* metaDescription (part_001:161-164)
outputMeta(payload) ==
    IF payload.metaDescription.t = "string"
    THEN clamp(trim(payload.metaDescription.s), 160)
    ELSE ""

\* What a provider call ends in: a response with its output text, an
\* OpenAI.APIError with its code and status, or another error.
Ok(text) == [kind |-> "ok", text |-> text, code |-> "", status |-> 0]
ApiError(code, status) == [kind |-> "apiError", text |-> <<>>, code |-> code, status |-> status]
OtherError == [kind |-> "otherError", text |-> <<>>, code |-> "", status |-> 0]

\* A variant of the fallback test that also retries rate-limited calls.
shouldFallback_rateLimit(error) ==
    /\ error.kind = "apiError"
    /\ (error.code \in {"model_not_found", "rate_limit_exceeded"} \/ error.status = 403)

\* The fallback test of requestTaglines (part_001:93-94)
shouldFallback(error) ==
    /\ error.kind = "apiError"
    /\ (error.code = "model_not_found" \/ error.status = 403)

generationFailureMessage == "We could not generate taglines right now."
authenticationMessage == "Invalid API key. Please check your key and try again."
quotaMessage == "OpenAI quota exceeded. Please check your billing."
throttlingMessage == "Too many requests. Please try again in a moment."
genericMessage == "Generation failed. Please try again in a moment."

\* A variant of the error mapping that tests the quota code twice.
errorResponse_noThrottling(error) ==
    IF error.kind = "apiError" /\ error.code = "invalid_api_key"
    THEN ErrorResponse(502, authenticationMessage)
    ELSE IF error.kind = "apiError" /\ error.code = "insufficient_quota"
         THEN ErrorResponse(502, quotaMessage)
         ELSE ErrorResponse(502, genericMessage)

\* The catch block of POST (part_001:174-206)
errorResponse(error) ==
    IF error.kind = "apiError" /\ error.code = "invalid_api_key"
    THEN ErrorResponse(502, authenticationMessage)
    ELSE IF error.kind = "apiError" /\ error.code = "insufficient_quota"
         THEN ErrorResponse(502, quotaMessage)
         ELSE IF error.kind = "apiError" /\ error.code = "rate_limit_exceeded"
              THEN ErrorResponse(502, throttlingMessage)
              ELSE ErrorResponse(502, genericMessage)

\* The try block of POST after requestTaglines has resolved (part_001:136-173)
outputResponse(text) ==
    LET raw == trimTokens(text)
        output == parseOutput(raw)
        taglines == outputTaglines(output)
        metaDescription == outputMeta(output)
    IN  IF Len(raw) = 0 THEN ErrorResponse(502, generationFailureMessage)
        ELSE IF sanitizeThrows(output) THEN errorResponse(OtherError)
             ELSE IF Len(taglines) = 0 \/ metaDescription = ""
                  THEN ErrorResponse(502, generationFailureMessage)
                  ELSE SuccessResponse(taglines, metaDescription)

\* The prompt (part_001:127-132)
buildPrompt(description, tone, audience) ==
    "Description: " \o trim(description) \o "\n" \o "Tone: " \o tone \o "\n"
    \o "Audience: " \o audience \o "\n" \o "Return the JSON only."

---------------------------------------------------------------------------
(* Inputs.                                                                 *)

\* The first n characters of unit repeated for ever.
repeatTo(unit, n) ==
    concat([i \in 1..n |-> Char(unit, ((i - 1) % Len(unit)) + 1)], 1, n)

ExampleDescription ==
    "A racing-inspired energy drink for weekend drivers who crave speed."

DescriptionUnits == {"a bcd", "Energy drink. ", "go \t fast  "}
DescriptionLengths ==
    {0, 5} \cup ((minDescriptionLength - 2)..(minDescriptionLength + 2))
    \cup (96..MaxDescLen)

Descriptions ==
    {ExampleDescription, "Short"}
    \cup {lead \o repeatTo(unit, n) \o tail :
            lead \in {"", "  "}, unit \in DescriptionUnits,
            n \in DescriptionLengths, tail \in {"", ".", " "}}

DescriptionValues ==
    {JString(d) : d \in Descriptions}
    \cup {JUndefined, JNull, JNumber("42"), JNumber("123456789012345680000"),
          JObject, JBadToString}

ToneValues ==
    {JString(x) : x \in Range(tones)} \cup {JString("Unknown"), JUndefined, JNumber("7")}
AudienceValues ==
    {JString(x) : x \in Range(audiences)} \cup {JString("Nobody"), JUndefined}

GenerateBodies ==
    {UnparsableBody, NullBody, ScalarBody}
    \cup {Body("object", d, JString("Bold"), JString("Motorsport fans")) :
            d \in DescriptionValues}
    \cup {Body("object", JString(d), tn, au) :
            d \in {ExampleDescription, "Short"}, tn \in ToneValues,
            au \in AudienceValues}

AdapterBodies ==
    {UnparsableBody, NullBody, ScalarBody}
    \cup {Body("object", d, JString("Bold"), JString("Motorsport fans")) :
            d \in {JString(ExampleDescription), JString("Short"), JUndefined,
                   JBadToString, JString("  " \o repeatTo("a bcd", 19) \o " ")}}
    \cup {Body("object", JString(repeatTo("a bcd", 20)), JString("Unknown"), JUndefined)}

Requests ==
    {[route |-> "generate", body |-> b] : b \in GenerateBodies}
    \cup {[route |-> "adapter", body |-> b] : b \in AdapterBodies}

\* Raw taglines a model may return.
RawTaglines ==
    <<"Go fast", "1. Go fast", "\"Go fast\"", "  Own   the\ttrack  ", "",
      "one two three four five six seven eight nine ten eleven twelve",
      "Push race days", "\"'  ", "1) \"Ignite every lap, every time!\"  ",
      "Built to own fans">>

\* The list of n raw taglines starting at `start` and stepping by `stride`
\* (a stride of 0 repeats one tagline).
taglineList(n, start, stride) ==
    [i \in 1..n |->
        JString(RawTaglines[((start - 1 + (i - 1) * stride) % Len(RawTaglines)) + 1])]

TaglineMembers ==
    {TaglineArray(taglineList(n, start, stride)) :
        n \in 0..MaxListLen, start \in 1..Len(RawTaglines), stride \in 0..1}
    \cup {NoTaglines, [t |-> "string", items |-> <<>>],
          TaglineArray(<<JString("Go fast"), JNumber("5")>>),
          TaglineArray(<<JNull>>)}

MetaMembers ==
    {JString(repeatTo(unit, n)) :
        unit \in {"a bcd", "ab", " ab  "}, n \in {0, 1, 3} \cup (155..MaxMetaLen)}
    \cup {JUndefined, JNull, JNumber("5")}

GoodTaglines == TaglineArray(taglineList(5, 1, 1))
GoodMeta == JString("Bold taglines for motorsport fans.")

Payloads ==
    {Payload(tg, m) : tg \in TaglineMembers, m \in {GoodMeta, JUndefined}}
    \cup {Payload(tg, m) : tg \in {GoodTaglines, NoTaglines}, m \in MetaMembers}

objectText(payload) == <<Tok("{"), Members(payload), Tok("}")>>

OutputTexts ==
    {objectText(p) : p \in Payloads}
    \cup {pre \o objectText(p) \o post :
            pre \in {<<>>, <<Tok(" ")>>, <<Tok("x"), Tok("\n")>>, <<Tok("}")>>},
            post \in {<<>>, <<Tok("\n")>>, <<Tok("x")>>, <<Tok("{")>>},
            p \in {Payload(GoodTaglines, GoodMeta), Payload(NoTaglines, GoodMeta)}}
    \cup {objectText(Payload(GoodTaglines, GoodMeta)) \o <<Tok("x")>>
            \o objectText(Payload(GoodTaglines, GoodMeta)),
          <<>>, <<Tok(" "), Tok("\n")>>, <<Tok("x")>>, <<Literal>>,
          <<Tok("{"), Tok("}")>>, <<Tok("}"), Tok("{")>>,
          <<Tok("{"), Members(Payload(GoodTaglines, GoodMeta))>>}

ErrorCodes ==
    {"invalid_api_key", "insufficient_quota", "rate_limit_exceeded",
     "model_not_found", "server_error"}
ErrorStatuses == {401, 403, 404, 429, 500}

ProviderOutcomes ==
    {Ok(text) : text \in OutputTexts}
    \cup {ApiError(code, status) : code \in ErrorCodes, status \in ErrorStatuses}
    \cup {OtherError}

\* One uint32 draw for each index pick can return on a list of four words
\* (part_000:65-66): pickIndex(<<q * 2^14, 0>>, 4) = q.
DrawValues == {<<q * (W16 \div 4), 0>> : q \in 0..3}

\* The draw of an attempt that is not varied.
DefaultDraw == <<0, 0>>

\* The requests served when the draws are arbitrary: every tone with every
\* audience.
DrawRequests ==
    {[route |-> "generate",
      body |-> Body("object", JString(ExampleDescription), JString(tn), JString(au))] :
        tn \in Range(tones), au \in Range(audiences)}

\* The requests replayed when the server handles several in a row.
RepeatRequests ==
    {[route |-> "generate", body |-> Body("object", JString(d), JString(tn), JString(au))] :
        d \in {ExampleDescription, repeatTo("Energy drink. ", 30)},
        tn \in {"Bold", "Playful"}, au \in {"Motorsport fans", "Nobody", "General"}}

---------------------------------------------------------------------------
(* The state machine.                                                      *)

\* A helper applied directly: its arguments, and its result once applied.
\* `text` is the text a raw tagline was built around.
HelperCall(name, value, max, text) ==
    [name |-> name, value |-> value, max |-> max, text |-> text,
     done |-> FALSE, result |-> ""]

NoCall == HelperCall("none", "", 0, "")

\* No request has arrived yet.
ServerStarted ==
    /\ pc = "idle"
    /\ route = "none"
    /\ env \in [apiKey : BOOLEAN]
    /\ body = UnparsableBody
    /\ loc = [description |-> "", tone |-> "", audience |-> ""]
    /\ t = <<0, 0>>
    /\ results = <<>>
    /\ attempts = 0
    /\ calls = <<>>
    /\ outcome = NoOutcome
    /\ response = NoResponse
    /\ served = <<>>

Init == ServerStarted /\ fn = NoCall

\* A request arrives and its handler is invoked.
Receive(pool, limit) ==
    /\ pc \in {"idle", "done"}
    /\ Len(served) < limit
    /\ \E r \in pool :
        /\ route' = r.route
        /\ body' = r.body
    /\ pc' = "start"
    /\ response' = NoResponse
    /\ calls' = <<>>
    /\ outcome' = NoOutcome
    /\ UNCHANGED <<env, loc, t, results, attempts, served, fn>>

\* The handler ends with `resp`.
Finish(resp) ==
    /\ response' = resp
    /\ pc' = "done"
    /\ served' = Append(served, [route |-> route, body |-> body, response |-> resp])

\* POST of the generator, `payload = await request.json()` (part_000:112-120)
Generate_json ==
    /\ route = "generate" /\ pc = "start"
    /\ IF body.kind = "unparsable"
       THEN Finish(ErrorResponse(400, "Invalid JSON body."))
       ELSE pc' = "validate" /\ UNCHANGED <<response, served>>
    /\ UNCHANGED <<route, env, body, loc, t, results, attempts, calls, outcome, fn>>

\* POST of the generator, from the description check to the start of
\* buildTaglines' loop (part_000:122-132 and 69-86).
Generate_validate ==
    /\ route = "generate" /\ pc = "validate"
    /\ IF body.kind = "null" \/ toStringThrows(body.description)
       THEN /\ Finish(Uncaught)
            /\ UNCHANGED <<loc, t, results, attempts>>
       ELSE LET description == toStringOrEmpty(body.description)
                tone == parseTone(body.tone)
                audience == parseAudience(body.audience)
            IN  IF tooShort(description)
                THEN /\ Finish(ErrorResponse(400,
                            "Description must be at least 20 characters."))
                     /\ UNCHANGED <<loc, t, results, attempts>>
                ELSE /\ loc' = [description |-> description, tone |-> tone,
                                audience |-> audience]
                     /\ t' = createRng(hashSeed(
                            description \o "-" \o tone \o "-" \o audience))
                     /\ results' = <<>>
                     /\ attempts' = 0
                     /\ pc' = "loop"
                     /\ UNCHANGED <<response, served>>
    /\ UNCHANGED <<route, env, body, calls, outcome, fn>>

\* One iteration of buildTaglines' loop (part_000:88-93)
Generate_attempt ==
    /\ route = "generate" /\ pc = "loop"
    /\ loopCondition(Len(results), attempts)
    /\ LET s1 == rngAdvance(t)
           s2 == rngAdvance(s1)
       IN  /\ results' = setAdd(results,
                candidate(attempts, loc.tone, loc.audience,
                          rngOutput(s1), rngOutput(s2)))
           /\ t' = s2
    /\ attempts' = attempts + 1
    /\ UNCHANGED <<pc, route, env, body, loc, calls, outcome, response, served, fn>>

\* The loop has ended: buildTaglines returns, buildMeta runs, the handler
\* responds (part_000:95, 133-135).
Generate_respond ==
    /\ route = "generate" /\ pc = "loop"
    /\ ~loopCondition(Len(results), attempts)
    /\ Finish(SuccessResponse(taglinesOf(results),
                buildMeta(loc.description, loc.tone, loc.audience)))
    /\ UNCHANGED <<route, env, body, loc, t, results, attempts, calls, outcome, fn>>

\* POST of the adapter, the credential check (part_001:103-108)
Adapter_checkKey ==
    /\ route = "adapter" /\ pc = "start"
    /\ IF ~env.apiKey
       THEN Finish(ErrorResponse(500, "Server configuration issue. Missing API key."))
       ELSE pc' = "json" /\ UNCHANGED <<response, served>>
    /\ UNCHANGED <<route, env, body, loc, t, results, attempts, calls, outcome, fn>>

\* POST of the adapter, `payload = await request.json()` (part_001:110-115)
Adapter_json ==
    /\ route = "adapter" /\ pc = "json"
    /\ IF body.kind = "unparsable"
       THEN Finish(ErrorResponse(400, "Invalid JSON body."))
       ELSE pc' = "validate" /\ UNCHANGED <<response, served>>
    /\ UNCHANGED <<route, env, body, loc, t, results, attempts, calls, outcome, fn>>

\* POST of the adapter, the description check (part_001:117-126)
Adapter_validate ==
    /\ route = "adapter" /\ pc = "validate"
    /\ IF body.kind = "null" \/ toStringThrows(body.description)
       THEN Finish(Uncaught) /\ UNCHANGED loc
       ELSE LET description == toStringOrEmpty(body.description)
            IN  IF tooShort(description)
                THEN /\ Finish(ErrorResponse(400,
                            "Description must be at least 20 characters."))
                     /\ UNCHANGED loc
                ELSE /\ loc' = [description |-> description,
                                tone |-> parseTone(body.tone),
                                audience |-> parseAudience(body.audience)]
                     /\ pc' = "request"
                     /\ UNCHANGED <<response, served>>
    /\ UNCHANGED <<route, env, body, t, results, attempts, calls, outcome, fn>>

\* createResponse (part_001:52-87): one outbound call, and what it ends in.
createResponse(model, result) ==
    calls' = Append(calls,
        [model |-> model,
         prompt |-> buildPrompt(loc.description, loc.tone, loc.audience),
         result |-> result])

\* requestTaglines, the call to the primary model and the catch that decides
\* about the fallback (part_001:89-98).
Adapter_requestPrimary ==
    /\ route = "adapter" /\ pc = "request"
    /\ \E result \in ProviderOutcomes :
        /\ createResponse(primaryModel, result)
        /\ IF shouldFallback(result)
           THEN pc' = "fallback" /\ UNCHANGED outcome
           ELSE pc' = "settled" /\ outcome' = result
    /\ UNCHANGED <<route, env, body, loc, t, results, attempts, response, served, fn>>

\* requestTaglines, the call to the fallback model (part_001:95)
Adapter_requestFallback ==
    /\ route = "adapter" /\ pc = "fallback"
    /\ \E result \in ProviderOutcomes :
        /\ createResponse(fallbackModel, result)
        /\ outcome' = result
    /\ pc' = "settled"
    /\ UNCHANGED <<route, env, body, loc, t, results, attempts, response, served, fn>>

\* POST of the adapter once requestTaglines has resolved (part_001:135-173)
Adapter_output ==
    /\ route = "adapter" /\ pc = "settled" /\ outcome.kind = "ok"
    /\ Finish(outputResponse(outcome.text))
    /\ UNCHANGED <<route, env, body, loc, t, results, attempts, calls, outcome, fn>>

\* POST of the adapter once requestTaglines has thrown (part_001:174-206)
Adapter_catch ==
    /\ route = "adapter" /\ pc = "settled" /\ outcome.kind # "ok"
    /\ Finish(errorResponse(outcome))
    /\ UNCHANGED <<route, env, body, loc, t, results, attempts, calls, outcome, fn>>

Next ==
    \/ Receive(Requests, 1)
    \/ Generate_json
    \/ Generate_validate
    \/ Generate_attempt
    \/ Generate_respond
    \/ Adapter_checkKey
    \/ Adapter_json
    \/ Adapter_validate
    \/ Adapter_requestPrimary
    \/ Adapter_requestFallback
    \/ Adapter_output
    \/ Adapter_catch

Spec == Init /\ [][Next]_vars

NextRepeat ==
    \/ Receive(RepeatRequests, NumRequests)
    \/ Generate_json
    \/ Generate_validate
    \/ Generate_attempt
    \/ Generate_respond

SpecRepeat == Init /\ [][NextRepeat]_vars

\* The tagline of each template under default draws.
defaultTagline ==
    [k \in 0..(templateCount - 1), tone \in Range(tones), audience \in Range(audiences) |->
        candidate(k, tone, audience, DefaultDraw, DefaultDraw)]

\* The number of attempts so far whose tagline is not the one of default
\* draws.
variedAttempts(set, tone, audience) ==
    Cardinality({i \in DOMAIN set :
        set[i] # defaultTagline[(i - 1) % templateCount, tone, audience]})

\* One iteration of buildTaglines' loop (part_000:88-93) when rng may return
\* anything: the two draws of the attempt are any of DrawValues, for at most
\* MaxVariedAttempts attempts of a request, and DefaultDraw for the others.
Generate_attemptAnyDraw ==
    /\ route = "generate" /\ pc = "loop"
    /\ loopCondition(Len(results), attempts)
    /\ LET draws == IF variedAttempts(results, loc.tone, loc.audience) < MaxVariedAttempts
                     THEN DrawValues
                     ELSE {DefaultDraw}
       IN  \E first \in draws, second \in draws :
               results' = setAdd(results,
                    candidate(attempts, loc.tone, loc.audience, first, second))
    /\ t' = rngAdvance(rngAdvance(t))
    /\ attempts' = attempts + 1
    /\ UNCHANGED <<pc, route, env, body, loc, calls, outcome, response, served, fn>>

NextDraws ==
    \/ Receive(DrawRequests, 1)
    \/ Generate_json
    \/ Generate_validate
    \/ Generate_attemptAnyDraw
    \/ Generate_respond

SpecDraws == Init /\ [][NextDraws]_vars

---------------------------------------------------------------------------
(* The helpers applied on their own, to inputs drawn from bounded sets.    *)

\* Every string of at most n characters over `alphabet`.
RECURSIVE stringsUpTo(_, _)
stringsUpTo(alphabet, n) ==
    IF n = 0 THEN {""}
    ELSE LET shorter == stringsUpTo(alphabet, n - 1)
         IN  shorter \cup {s \o c : s \in {x \in shorter : Len(x) = n - 1},
                                     c \in alphabet}

ClampCalls ==
    {HelperCall("clamp", value, max, "") :
        value \in stringsUpTo({"a", " "}, MaxClampLen), max \in 0..MaxClampMax}

\* Raw taglines as a model may number and quote them: a list marker,
\* whitespace, an opening quote, the text, a closing quote, whitespace.
TaglineTexts == {"Ignite every lap, every time!", "Go", "Go fast"}

MarkedTaglineCalls ==
    {HelperCall("sanitizeTagline",
                digits \o punct \o gap \o open \o text \o close \o trail, 0, text) :
        digits \in {"1", "12"}, punct \in MarkerPunct, gap \in {" ", "\t", "  "},
        open \in Quotes, text \in TaglineTexts, close \in Quotes,
        trail \in {"", " ", "  "}}

InitHelpers ==
    /\ ServerStarted
    /\ fn \in ClampCalls \cup MarkedTaglineCalls

Apply_clamp ==
    /\ fn.name = "clamp" /\ ~fn.done
    /\ fn' = [fn EXCEPT !.done = TRUE, !.result = clamp(fn.value, fn.max)]
    /\ UNCHANGED <<pc, route, env, body, loc, t, results, attempts, calls,
                   outcome, response, served>>

Apply_sanitizeTagline ==
    /\ fn.name = "sanitizeTagline" /\ ~fn.done
    /\ fn' = [fn EXCEPT !.done = TRUE, !.result = sanitizeTagline(fn.value)]
    /\ UNCHANGED <<pc, route, env, body, loc, t, results, attempts, calls,
                   outcome, response, served>>

NextHelpers == Apply_clamp \/ Apply_sanitizeTagline

SpecHelpers == InitHelpers /\ [][NextHelpers]_vars

---------------------------------------------------------------------------
(* Properties.                                                             *)

endsWith(s, suffix) ==
    Len(s) >= Len(suffix) /\ SubSeq(s, Len(s) - Len(suffix) + 1, Len(s)) = suffix

ClampApplied == fn.name = "clamp" /\ fn.done
ClampTruncated == ClampApplied /\ Len(fn.value) > fn.max
\* The part of a truncated result before its final "..."
ClampPrefix == SubSeq(fn.result, 1, Len(fn.result) - 3)

\* C5 as stated: clamp(value, max) is never longer than max, and whenever
\* value is longer than max the result ends in "..." and the part before the
\* ellipsis has length exactly max - 3, for every value and every max.
C5_ClampAsStated ==
    /\ ClampApplied => Len(fn.result) <= fn.max
    /\ ClampTruncated =>
        /\ endsWith(fn.result, "...")
        /\ Len(ClampPrefix) = fn.max - 3

\* C5 amended: for max >= 3, clamp(value, max) is never longer than max; and
\* whenever value is longer than max the result ends in "..." (for every max)
\* and, for max >= 3, the part before the ellipsis is the first max - 3
\* characters of value with their trailing whitespace removed: a prefix of
\* value of length at most max - 3 that does not end in whitespace, followed
\* in value only by whitespace up to position max - 3.
C5_Clamp ==
    /\ ClampApplied /\ fn.max >= 3 => Len(fn.result) <= fn.max
    /\ ClampTruncated => endsWith(fn.result, "...")
    /\ ClampTruncated /\ fn.max >= 3 =>
        LET n == Len(ClampPrefix)
        IN  /\ n <= fn.max - 3
            /\ ClampPrefix = SubSeq(fn.value, 1, n)
            /\ n > 0 => Char(fn.value, n) \notin WhiteSpace
            /\ \A i \in (n + 1)..(fn.max - 3) : Char(fn.value, i) \in WhiteSpace

\* C5's case: a value longer than max whose cut ends in whitespace, so that
\* the part before the ellipsis is shorter than max - 3.
C5_Witness ==
    /\ ClampTruncated /\ fn.max >= 3
    /\ Len(ClampPrefix) < fn.max - 3
    /\ Len(ClampPrefix) > 0

\* C7 as stated: a raw tagline made of a numeric list marker, whitespace, an
\* opening quote, a text, a closing quote and trailing whitespace is
\* sanitized to exactly the text.
C7_SanitizeAsStated ==
    fn.name = "sanitizeTagline" /\ fn.done => fn.result = fn.text

---------------------------------------------------------------------------
(* Properties of the handlers.                                             *)

Done == pc = "done"
Success == Done /\ response.kind = "json" /\ response.status = 200

\* The (description, tone, audience) triple a served request was run on.
tripleOf(b) ==
    <<toStringOrEmpty(b.description), parseTone(b.tone), parseAudience(b.audience)>>

NoDuplicates(list) ==
    \A i, j \in DOMAIN list : list[i] = list[j] => i = j

\* The number of whitespace-separated words of s.
wordCount(s) ==
    Cardinality({i \in 1..Len(s) :
        /\ Char(s, i) \notin WhiteSpace
        /\ (i = 1 \/ Char(s, i - 1) \in WhiteSpace)})

\* C1: the deterministic generator is a function of its inputs only: two
\* requests served on the same (description, tone, audience) get the same
\* ordered taglines and the same meta description, whatever was served
\* before them.
C1_Deterministic ==
    \A i, j \in DOMAIN served :
        /\ served[i].route = "generate" /\ served[j].route = "generate"
        /\ served[i].response.status = 200 /\ served[j].response.status = 200
        /\ tripleOf(served[i].body) = tripleOf(served[j].body)
        => /\ served[i].response.taglines = served[j].response.taglines
           /\ served[i].response.metaDescription = served[j].response.metaDescription

\* C1's case: the same triple has been served twice, from two request bodies
\* that differ, and five taglines came back.
C1_Witness ==
    /\ Len(served) >= 2
    /\ served[1].body # served[2].body
    /\ tripleOf(served[1].body) = tripleOf(served[2].body)
    /\ served[2].response.status = 200
    /\ Len(served[2].response.taglines) = 5

\* C2: buildTaglines returns between 1 and 5 taglines, no two equal; its loop
\* makes at most 30 attempts and stops as soon as 5 unique taglines are
\* collected (the set never grows past 5).
C2_TaglineCount ==
    /\ attempts <= 30
    /\ Len(results) <= 5
    /\ NoDuplicates(results)
    /\ route = "generate" /\ Success =>
        /\ Len(response.taglines) >= 1
        /\ Len(response.taglines) <= 5
        /\ NoDuplicates(response.taglines)

\* C2's case: the generator has answered with five taglines.
C2_Witness ==
    /\ route = "generate" /\ Success
    /\ Len(response.taglines) = 5
    /\ attempts >= 5

\* C3: every tagline of a success response, of either backend, has at most
\* 10 whitespace-separated words.
C3_WordLimit ==
    Success => \A i \in DOMAIN response.taglines : wordCount(response.taglines[i]) <= 10

\* C3's case: the adapter answered with a tagline the model had returned with
\* more than 10 words.
C3_Witness ==
    /\ route = "adapter" /\ Success
    /\ \E i \in DOMAIN outcome.text : \E k \in DOMAIN outcome.text[i].p.taglines.items :
        wordCount(outcome.text[i].p.taglines.items[k].s) > 10
    /\ \E i \in DOMAIN response.taglines : wordCount(response.taglines[i]) = 10

\* C4 as stated: every success response of either backend carries at most 5
\* taglines, no two of them equal, and a meta description of at most 160
\* characters.
C4_ResultShapeAsStated ==
    Success =>
        /\ Len(response.taglines) <= 5
        /\ NoDuplicates(response.taglines)
        /\ Len(response.metaDescription) <= 160

\* The description of a request that reaches the validation: its body
\* parses to a JSON value other than null and the description converts to a
\* string that is shorter than 20 characters once trimmed (an absent
\* description converts to the empty string).
ShortDescription ==
    /\ body.kind \in {"object", "scalar"}
    /\ ~toStringThrows(body.description)
    /\ Len(trim(toStringOrEmpty(body.description))) < 20

NoGeneration == calls = <<>> /\ attempts = 0 /\ results = <<>> /\ t = <<0, 0>>

C8_AlwaysStructuredAsStated ==
    Done =>
        /\ response.kind = "json"
        /\ \/ response.status = 200
           \/ response.status \in {400, 500, 502} /\ response.error # ""

\* The message the error mapping owes to an error, by category and priority.
messageFor(error) ==
    CASE error.kind = "apiError" /\ error.code = "invalid_api_key" -> authenticationMessage
      [] error.kind = "apiError" /\ error.code = "insufficient_quota" -> quotaMessage
      [] error.kind = "apiError" /\ error.code = "rate_limit_exceeded" -> throttlingMessage
      [] OTHER -> genericMessage

Unavailable(result) ==
    result.kind = "apiError" /\ (result.code = "model_not_found" \/ result.status = 403)

\* C10: at most two provider calls per request, the first to the primary
\* model; a second call is issued if and only if the first failed with a
\* model-unavailable or forbidden provider error, and goes to the fallback
\* model; what the last call ended in is what requestTaglines ends in; a
\* request rejected before the call (missing key, unparsable body, short
\* description) and the generator issue no call.
C10_Calls ==
    /\ Len(calls) <= 2
    /\ Len(calls) >= 1 => calls[1].model = primaryModel /\ route = "adapter"
    /\ Len(calls) = 2 => calls[2].model = fallbackModel /\ Unavailable(calls[1].result)
    /\ pc \in {"settled", "done"} /\ Len(calls) = 1 =>
        ~Unavailable(calls[1].result) /\ outcome = calls[1].result
    /\ pc \in {"settled", "done"} /\ Len(calls) = 2 => outcome = calls[2].result
    /\ Done /\ (response.kind # "json" \/ response.status \in {400, 500}) => calls = <<>>

\* C10's case: the primary call failed with status 403, the fallback call
\* failed too, and its error reached the error mapping.
C10_Witness ==
    /\ Done /\ Len(calls) = 2
    /\ calls[1].result.status = 403 /\ calls[1].result.code # "model_not_found"
    /\ calls[2].result.kind = "apiError"
    /\ response.status = 502

\* Whether one of the two parse attempts on the trimmed output text succeeds.
Parses(raw) ==
    \/ jsonParse(raw).ok
    \/ extractJson(raw).found /\ jsonParse(extractJson(raw).text).ok

\* Whether the provider's output text is usable in the words of the
\* specification: non-empty, parsable, with a list of strings of which at
\* least one is non-empty after sanitization, and a non-blank string meta
\* description.
UsableOutput(text) ==
    LET raw == trimTokens(text)
        payload == parseOutput(raw)
        list == payload.taglines
    IN  /\ Len(raw) > 0
        /\ Parses(raw)
        /\ list.t = "array"
        /\ \A i \in DOMAIN list.items : list.items[i].t = "string"
        /\ \E i \in DOMAIN list.items : sanitizeTagline(list.items[i].s) # ""
        /\ payload.metaDescription.t = "string"
        /\ trim(payload.metaDescription.s) # ""

\* The messages of the catch block, used for transport and provider errors.
ProviderErrorMessages ==
    {authenticationMessage, quotaMessage, throttlingMessage, genericMessage}

\* C11: once the provider call has succeeded, the adapter answers 200 only
\* if the output text is usable; for every other output text (empty,
\* unparsable, taglines missing, not a list, with a non-string entry or all
\* empty after sanitization, meta description missing, not a string or
\* blank) it answers 502 with the generation-failure message, which is none
\* of the messages used for transport and provider errors.
C11_OutputHandlingAsStated ==
    /\ generationFailureMessage \notin ProviderErrorMessages
    /\ route = "adapter" /\ Done /\ outcome.kind = "ok" =>
        /\ response.kind = "json"
        /\ response.status = 200 => UsableOutput(outcome.text)
        /\ ~UsableOutput(outcome.text) =>
            response = ErrorResponse(502, generationFailureMessage)

\* The words the templates put around the picked ones (part_000:74-83).
FrameWords ==
    {"faster", "wins", "for", "Built", "to", "with", "edge", "what", "demand",
     "A", "pulse", "momentum"}

\* The words of the entries of a word list.
wordsOf(list) == UNION {Range(split(list[i])) : i \in DOMAIN list}

\* The words a tagline for a tone and an audience may hold: the frame words,
\* the tone's modifiers and verbs and the audience's nouns.
allowedWords ==
    [tone \in Range(tones), audience \in Range(audiences) |->
        FrameWords \cup wordsOf(toneModifiers[tone]) \cup wordsOf(toneVerbs[tone])
            \cup wordsOf(audienceNouns[audience])]

\* Whether every word of `tagline` is a frame word or comes from that tone's
\* modifiers or verbs or from that audience's nouns.
BuiltFrom(tagline, tone, audience) ==
    Range(split(tagline)) \subseteq allowedWords[tone, audience]

\* C12: with the shipped word banks, for every tone, every audience and any
\* draws, every attempt of the loop adds a new tagline, so the loop ends after
\* exactly 5 attempts (the 30-attempt guard is never what ends it) and the
\* generator returns the collected taglines: exactly 5, pairwise distinct,
\* each built only from that tone's modifiers and verbs and that audience's
\* nouns.
C12_FiveDistinct ==
    /\ Len(results) = attempts
    /\ attempts <= 5
    /\ NoDuplicates(results)
    /\ \A i \in DOMAIN results : BuiltFrom(results[i], loc.tone, loc.audience)
    /\ route = "generate" /\ Done =>
        /\ Success
        /\ attempts = 5
        /\ Len(response.taglines) = 5
        /\ response.taglines = results

\* C12's case: the generator has answered a request whose draws were not
\* all the default ones, for a tone and an audience other than the defaults.
C12_Witness ==
    /\ route = "generate" /\ Success
    /\ loc.tone = "Playful" /\ loc.audience = "Finance/banking"
    /\ variedAttempts(results, loc.tone, loc.audience) = MaxVariedAttempts
    /\ Len(response.taglines) = 5
    /\ attempts = 5

=============================================================================
